---- MODULE Spec2Model ----
(***************************************************************************)
(* Model of src/net.c of the pubsub broker: the libev callbacks accept_cb  *)
(* and peer_cb and the frame decoder read_packet.                          *)
(*                                                                         *)
(* Bytes are integers 0..255.  The clients list is a sequence whose first  *)
(* element is the list head (LIST_INSERT_HEAD).  An outgoing_msgs list is  *)
(* a sequence of envelopes, head first.                                    *)
(***************************************************************************)
EXTENDS Integers, Sequences, FiniteSets, TLC

----------------------------------------------------------------------------
(* Bounds of the model *)

\* capacity of a receive buffer (4096 in the program, scaled down)
BUF_LEN == 6
\* most envelopes one outgoing_msgs list holds
MaxQueue == 2
\* most envelopes allocated at one time (the heap is finite)
MaxEnvelopes == 2
\* bytes_sent is not followed below -MaxUnder
MaxUnder == 1
\* most bytes one observed connection receives
MaxStream == 5
\* most whole frames one observed connection receives
MaxFrames == 4
\* most bytes one observed connection is followed writing
MaxWire == 7

----------------------------------------------------------------------------
(* Program and platform constants *)

EAGAIN == 11
EWOULDBLOCK == 11
EINTR == 4
EIO == 5
INT_MAX == 2147483647
T_CONNECT == 16
T_PINGREQ == 192

S_CONNECTING == "S_CONNECTING"
S_CONNECTED == "S_CONNECTED"

EV_READ == "EV_READ"
EV_WRITE == "EV_WRITE"

\* descriptors accept() hands out
FDS == {4, 5, 6}
\* byte values the peers send
Byte == {0, 1, T_CONNECT, T_PINGREQ}
\* chunks read() delivers in the full system
SysChunks == {<<T_CONNECT, 1, 0>>, <<T_PINGREQ, 1, 0>>}
\* chunks read() delivers in the system with the event record
EvChunks == {<<T_CONNECT, 1, 0>>}
\* payloads handed to the outbound queue in the full system
Payloads == {<<7, 8>>}
\* payloads of every length the enqueue interface admits, the empty one
\* included
AnyPayloads == {<<>>, <<7>>, <<7, 8>>}
\* the three envelopes of the ordering scenario
E1 == <<1, 2>>
E2 == <<3>>
E3 == <<4, 5>>
EnvList == <<E1, E2, E3>>
\* value standing for a byte read outside envelope->msg
OOB == -1

VARIABLES
    clients,        \* the clients list, head first
    num_clients,    \* the counter num_clients
    watchers,       \* descriptors of the started ev_io watchers
    openFds,        \* descriptors accept() returned that are not closed
    heap,           \* live allocations, counted by kind
    char_signed,    \* whether plain char is signed in this build
    crashed,        \* the process died of undefined behaviour
    ev,             \* the last callback: what fired and what I/O returned
    rcvd,           \* observed connection: the bytes read() delivered so far
    completed,      \* observed connection: the frames read_packet found complete
    enqueued,       \* observed connection: number of envelopes enqueued
    wire,           \* observed connection: bytes write() accepted
    dec             \* decoder run on one prepared buffer

vars == <<clients, num_clients, watchers, openFds, heap, char_signed, crashed,
          ev, rcvd, completed, enqueued, wire, dec>>
core == <<clients, num_clients, watchers, openFds, heap, crashed>>
ghostIn == <<rcvd, completed>>
ghostOut == <<enqueued, wire>>

----------------------------------------------------------------------------
(* Helpers *)

IsPrefix(s, t) == Len(s) <= Len(t) /\ SubSeq(t, 1, Len(s)) = s

SeqsUpTo(S, n) == UNION {[1..k -> S] : k \in 1..n}

NoEvent == [op |-> "none", w |-> 0, target |-> 0, res |-> 0, err |-> 0]

----------------------------------------------------------------------------
(* A buffer as read_packet sees it: the first bytes, spelled out, then     *)
(* n - Len(hdr) further bytes that all equal fill.                         *)

View(inbuf) == [hdr |-> inbuf, fill |-> 0, n |-> Len(inbuf)]

ByteAt(v, i) == IF i < Len(v.hdr) THEN v.hdr[i + 1] ELSE v.fill

\* client->inbuf[i] converted to int
CharAt(v, i) ==
    IF char_signed /\ ByteAt(v, i) >= 128 THEN ByteAt(v, i) - 256 ELSE ByteAt(v, i)

\* the do-while loop of read_packet, entered with msg_index and multiplier;
\* ovf: a signed multiplication left the range of int
RECURSIVE VarLoop(_, _, _)
VarLoop(v, msg_index, multiplier) ==
    LET thisbyte == CharAt(v, msg_index)
        low7 == thisbyte % 128
        msg_length == low7 * multiplier
        mult2 == multiplier * 128
        over == \/ low7 # 0 /\ multiplier > INT_MAX \div low7
                \/ multiplier > INT_MAX \div 128
    IN  IF over THEN [msg_length |-> 0, ovf |-> TRUE]
        ELSE IF msg_index + 1 < v.n /\ low7 # 0
             THEN VarLoop(v, msg_index + 1, mult2)
             ELSE [msg_length |-> msg_length, ovf |-> FALSE]

\* read_packet up to msg_complete: the outcomes the build can produce
Framing(v) ==
    IF CharAt(v, 1) < 128 /\ v.n - 2 = CharAt(v, 1)
    THEN {[msg_complete |-> TRUE, msg_length |-> CharAt(v, 1)]}
    ELSE IF CharAt(v, 1) >= 128
         THEN LET r == VarLoop(v, 1, 1)
              IN  IF r.ovf
                  THEN {[msg_complete |-> b, msg_length |-> IF b THEN v.n - 2 ELSE 0] :
                            b \in BOOLEAN}
                  ELSE {[msg_complete |-> (v.n - 2 = r.msg_length),
                         msg_length |-> r.msg_length]}
         ELSE {[msg_complete |-> FALSE, msg_length |-> CharAt(v, 1)]}

MsgType(v) == ByteAt(v, 0) - (ByteAt(v, 0) % 16)

\* handle_connect: accepts (returns 1, the connection is established and its
\* identity fields are populated) or rejects (returns 0)
handle_connect(client, msg_length, accept) ==
    IF accept
    THEN [ret |-> 1, client |-> [client EXCEPT !.state = S_CONNECTED, !.ident = "set"]]
    ELSE [ret |-> 0, client |-> client]

\* read_packet without the test of client->state: every complete frame goes
\* to the switch
read_packet_any_state(client, f, accept) ==
    LET v == View(client.inbuf)
        msg_type == MsgType(v)
    IN  IF ~f.msg_complete
        THEN [ret |-> 0, client |-> client, handler |-> "none", complete |-> FALSE]
        ELSE IF msg_type = T_CONNECT
        THEN LET h == handle_connect(client, f.msg_length, accept)
             IN  [ret |-> h.ret, client |-> h.client, handler |-> "connect",
                  complete |-> TRUE]
        ELSE IF msg_type = T_PINGREQ
        THEN [ret |-> 0, client |-> client, handler |-> "pingreq", complete |-> TRUE]
        ELSE [ret |-> 0, client |-> client, handler |-> "default", complete |-> TRUE]

\* read_packet(client) under framing outcome f: the value returned, the
\* client afterwards and the handler invoked, if any
read_packet(client, f, accept) ==
    LET v == View(client.inbuf)
        msg_type == MsgType(v)
    IN  IF ~f.msg_complete
        THEN [ret |-> 0, client |-> client, handler |-> "none", complete |-> FALSE]
        ELSE IF client.state = S_CONNECTING /\ msg_type # T_CONNECT
        THEN [ret |-> 0, client |-> client, handler |-> "none", complete |-> TRUE]
        ELSE IF msg_type = T_CONNECT
        THEN LET h == handle_connect(client, f.msg_length, accept)
             IN  [ret |-> h.ret, client |-> h.client, handler |-> "connect",
                  complete |-> TRUE]
        ELSE IF msg_type = T_PINGREQ
        THEN [ret |-> 0, client |-> client, handler |-> "pingreq", complete |-> TRUE]
        ELSE [ret |-> 0, client |-> client, handler |-> "default", complete |-> TRUE]

\* the assertion at the head of read_packet
read_packet_assert(client) == Len(client.inbuf) > 2

\* a guard that lets the two bytes of a header-only frame through
CallsReadPacketFromTwo(client) == Len(client.inbuf) >= 2

\* the test under which peer_cb calls read_packet
CallsReadPacket(client) == Len(client.inbuf) > 2

\* peer_cb from "client->inbuf_bytes += bytes_read" on: data was read into
\* the buffer.  garbage is the value of the uninitialised ret when
\* read_packet is not called.
AfterRead(client, data, f, accept, garbage) ==
    LET c1 == [client EXCEPT !.inbuf = client.inbuf \o data]
        rp == IF CallsReadPacket(c1)
              THEN read_packet(c1, f, accept)
              ELSE [ret |-> garbage, client |-> c1, handler |-> "none",
                    complete |-> FALSE]
    IN  [client |-> IF rp.ret # 0 THEN [rp.client EXCEPT !.inbuf = <<>>] ELSE rp.client,
         handler |-> rp.handler,
         complete |-> rp.complete,
         frame |-> c1.inbuf]

\* framing outcomes of the buffer a read of data leaves
FramingAfter(client, data) ==
    IF Len(client.inbuf) + Len(data) > 2
    THEN Framing(View(client.inbuf \o data))
    ELSE {[msg_complete |-> FALSE, msg_length |-> 0]}

----------------------------------------------------------------------------
(* Initial state: main() has run, nothing is connected *)

Init ==
    /\ clients = <<>>
    /\ num_clients = 0
    /\ watchers = {}
    /\ openFds = {}
    /\ heap = [client |-> 0, watcher |-> 0, inbuf |-> 0, ident |-> 0,
               envelope |-> 0, msg |-> 0]
    /\ char_signed \in BOOLEAN
    /\ crashed = FALSE
    /\ ev = NoEvent
    /\ rcvd = <<>>
    /\ completed = <<>>
    /\ enqueued = 0
    /\ wire = <<>>
    /\ dec = [done |-> FALSE, L |-> 0, type |-> 0, fill |-> 0,
              msg_complete |-> FALSE, msg_length |-> 0]

----------------------------------------------------------------------------
(* accept_cb *)

NewClient(peer_sd) ==
    [fd |-> peer_sd, watcher_fd |-> peer_sd, state |-> S_CONNECTING,
     inbuf |-> <<>>, outgoing_msgs |-> <<>>, ident |-> "unset"]

\* what accept() can return: -1, or the lowest descriptor that is not open
AcceptResults ==
    {-1} \cup {fd \in FDS \ openFds : \A g \in FDS \ openFds : fd <= g}

\* accept_cb when accept() returned peer_sd
AcceptStep(peer_sd) ==
    IF peer_sd = EAGAIN \/ peer_sd = EINTR \/ peer_sd = EWOULDBLOCK
    THEN /\ openFds' = openFds \cup {peer_sd}
         /\ UNCHANGED <<clients, num_clients, watchers, heap, crashed>>
    ELSE IF peer_sd < 0
    THEN UNCHANGED core
    ELSE /\ clients' = <<NewClient(peer_sd)>> \o clients
         /\ num_clients' = num_clients + 1
         /\ watchers' = watchers \cup {peer_sd}
         /\ openFds' = openFds \cup {peer_sd}
         /\ heap' = [heap EXCEPT !.client = @ + 1, !.watcher = @ + 1, !.inbuf = @ + 1]
         /\ UNCHANGED crashed

----------------------------------------------------------------------------
(* peer_cb *)

\* the LIST_FOREACH lookup: index of the first client the test accepts,
\* 0 for NULL
Lookup(peer_w) ==
    LET hit(i) == clients[i].fd = clients[i].fd
    IN  IF \E i \in 1..Len(clients) : hit(i)
        THEN CHOOSE i \in 1..Len(clients) : hit(i) /\ \A j \in 1..(i - 1) : ~hit(j)
        ELSE 0

RemoveAt(s, i) == SubSeq(s, 1, i - 1) \o SubSeq(s, i + 1, Len(s))

\* what read(fd, buf, count) can return when the peer's next bytes are one
\* of chunks
ReadResults(count, chunks) ==
    {[n |-> 0, err |-> 0, data |-> <<>>]}
    \cup {[n |-> -1, err |-> e, data |-> <<>>] : e \in {EAGAIN, EIO}}
    \cup {[n |-> Len(d), err |-> 0, data |-> d] : d \in {c \in chunks : Len(c) <= count}}

\* what write(fd, buf, count) can return
WriteResults(count) ==
    {[n |-> k, err |-> 0] : k \in 0..count}
    \cup {[n |-> -1, err |-> e] : e \in {EAGAIN, EIO}}

\* the teardown without "num_clients--"
DisconnectUncounted(i, cr) ==
    LET client == clients[i]
    IN  /\ num_clients' = num_clients
        /\ openFds' = openFds \ {client.fd}
        /\ clients' = RemoveAt(clients, i)
        /\ heap' = [heap EXCEPT !.ident = IF client.ident = "set" THEN @ - 1 ELSE @,
                                !.inbuf = @ - 1, !.watcher = @ - 1, !.client = @ - 1]
        /\ watchers' = watchers \ {client.watcher_fd}
        /\ crashed' = (client.ident = "unset" /\ cr)

\* the branch of peer_cb taken when read() returned 0; cr: whether freeing
\* the never-assigned identifier pointers kills the process
Disconnect(i, cr) ==
    LET client == clients[i]
    IN  /\ num_clients' = num_clients - 1
        /\ openFds' = openFds \ {client.fd}
        /\ clients' = RemoveAt(clients, i)
        /\ heap' = [heap EXCEPT !.ident = IF client.ident = "set" THEN @ - 1 ELSE @,
                                !.inbuf = @ - 1, !.watcher = @ - 1, !.client = @ - 1]
        /\ watchers' = watchers \ {client.watcher_fd}
        /\ crashed' = (client.ident = "unset" /\ cr)

\* the EV_READ branch of peer_cb for the client at index i
ReadBranch(i, rd, f, accept, garbage, cr) ==
    IF rd.n = 0
    THEN Disconnect(i, cr)
    ELSE IF rd.n = -1
    THEN UNCHANGED core
    ELSE LET after == AfterRead(clients[i], rd.data, f, accept, garbage).client
         IN  /\ clients' = [clients EXCEPT ![i] = after]
             /\ heap' = [heap EXCEPT !.ident =
                            IF after.ident # clients[i].ident THEN @ + 1 ELSE @]
             /\ UNCHANGED <<num_clients, watchers, openFds, crashed>>

\* envelope after write() returned ret
Sent(envelope, ret) == [envelope EXCEPT !.bytes_sent = @ + ret]

\* the bytes write() took from envelope->msg + bytes_sent when it returned n
Taken(envelope, n) ==
    [k \in 1..(IF n > 0 THEN n ELSE 0) |->
        IF envelope.bytes_sent + k >= 1
        THEN envelope.msg[envelope.bytes_sent + k]
        ELSE OOB]

\* the EV_WRITE branch of peer_cb for the client at index i
WriteBranch(i, wr) ==
    LET client == clients[i]
        envelope == Head(client.outgoing_msgs)
        e2 == Sent(envelope, wr.n)
    IN  IF client.outgoing_msgs = <<>>
        THEN UNCHANGED core
        ELSE IF envelope.bytes_total = envelope.bytes_sent
        THEN /\ crashed' = TRUE
             /\ UNCHANGED <<clients, num_clients, watchers, openFds, heap>>
        ELSE IF e2.bytes_sent = e2.bytes_total
        THEN /\ clients' = [clients EXCEPT ![i].outgoing_msgs = Tail(@)]
             /\ heap' = [heap EXCEPT !.msg = @ - 1, !.envelope = @ - 1]
             /\ UNCHANGED <<num_clients, watchers, openFds, crashed>>
        ELSE /\ clients' = [clients EXCEPT ![i].outgoing_msgs = <<e2>> \o Tail(@)]
             /\ UNCHANGED <<num_clients, watchers, openFds, heap, crashed>>

\* number of bytes the write of the EV_WRITE branch asks for
WriteCount(i) ==
    LET q == clients[i].outgoing_msgs
    IN  IF q = <<>> THEN 0 ELSE Head(q).bytes_total - Head(q).bytes_sent

\* peer_cb(peer_w, revents) with the results of its system calls
PeerCbStep(peer_w, revents, rd, wr, f, accept, garbage, cr) ==
    LET i == Lookup(peer_w)
    IN  IF i = 0 \/ clients[i].watcher_fd # clients[i].fd
        THEN /\ crashed' = TRUE
             /\ UNCHANGED <<clients, num_clients, watchers, openFds, heap>>
        ELSE IF EV_READ \in revents
        THEN ReadBranch(i, rd, f, accept, garbage, cr)
        ELSE IF EV_WRITE \in revents
        THEN WriteBranch(i, wr)
        ELSE UNCHANGED core

\* a read that asks for BUF_LEN bytes whatever is buffered already
ReadInputsWholeBuffer(i, chunks) == ReadResults(BUF_LEN, chunks)

\* the results read() can have in peer_cb for the client at index i
ReadInputs(i, chunks) == ReadResults(BUF_LEN - Len(clients[i].inbuf), chunks)

\* the results write() can have in peer_cb for the client at index i
WriteInputs(i) ==
    {wr \in WriteResults(WriteCount(i)) :
        clients[i].outgoing_msgs # <<>> =>
            Head(clients[i].outgoing_msgs).bytes_sent + wr.n >= -MaxUnder}

NoRead == [n |-> -1, err |-> EAGAIN, data |-> <<>>]
NoWrite == [n |-> 0, err |-> 0]
NoFraming == [msg_complete |-> FALSE, msg_length |-> 0]

Revents == {{EV_READ}, {EV_WRITE}, {EV_READ, EV_WRITE}}

----------------------------------------------------------------------------
(* The outbound queue's enqueue: a new envelope for msg at the tail *)

NewEnvelope(msg) == [msg |-> msg, bytes_total |-> Len(msg), bytes_sent |-> 0]

EnqueueStep(i, msg) ==
    /\ Len(clients[i].outgoing_msgs) < MaxQueue
    /\ heap.envelope < MaxEnvelopes
    /\ clients' = [clients EXCEPT ![i].outgoing_msgs = Append(@, NewEnvelope(msg))]
    /\ heap' = [heap EXCEPT !.envelope = @ + 1, !.msg = @ + 1]
    /\ UNCHANGED <<num_clients, watchers, openFds, crashed>>

----------------------------------------------------------------------------
(* What each specification keeps on record beside the program's state.    *)
(*   "none"  nothing                                                       *)
(*   "ev"    the last callback: the watcher that fired, the descriptor the *)
(*           I/O was done on and what the system call returned             *)
(*   "in"    the bytes one connection received and the frames read_packet  *)
(*           found complete                                                *)
(*   "fr"    as "in", for at most MaxFrames whole frames                   *)
(*   "out"   the envelopes enqueued on one connection and the bytes        *)
(*           write() took                                                  *)

EventOf(peer_w, revents, rd, wr) ==
    LET client == clients[Lookup(peer_w)]
    IN  IF EV_READ \in revents
        THEN [op |-> "read", w |-> peer_w, target |-> client.fd,
              res |-> rd.n, err |-> rd.err]
        ELSE IF client.outgoing_msgs # <<>>
        THEN [op |-> "write", w |-> peer_w, target |-> client.fd,
              res |-> wr.n, err |-> wr.err]
        ELSE [op |-> "idle", w |-> peer_w, target |-> client.fd,
              res |-> 0, err |-> 0]

\* the record of one complete frame: the buffer, the state it arrived in,
\* the handler invoked and the value read_packet returned
Completion(client, rd, ch) ==
    LET c1 == [client EXCEPT !.inbuf = client.inbuf \o rd.data]
        rp == read_packet(c1, ch.f, ch.accept)
    IN  [frame |-> c1.inbuf, state |-> client.state, handler |-> rp.handler,
         ret |-> rp.ret]

AcceptRec(mode, peer_sd) ==
    CASE mode = "none" -> UNCHANGED <<ev, ghostIn, ghostOut>>
      [] mode = "ev" ->
            /\ ev' = [NoEvent EXCEPT !.op = "accept", !.res = peer_sd]
            /\ UNCHANGED <<ghostIn, ghostOut>>
      [] mode \in {"in", "fr"} ->
            /\ rcvd' = <<>>
            /\ completed' = <<>>
            /\ UNCHANGED <<ev, ghostOut>>
      [] mode = "out" ->
            /\ enqueued' = 0
            /\ wire' = <<>>
            /\ UNCHANGED <<ev, ghostIn>>

PeerRec(mode, peer_w, revents, rd, wr, ch) ==
    LET client == clients[Lookup(peer_w)]
    IN  CASE mode = "none" -> UNCHANGED <<ev, ghostIn, ghostOut>>
          [] mode = "ev" ->
                /\ ev' = EventOf(peer_w, revents, rd, wr)
                /\ UNCHANGED <<ghostIn, ghostOut>>
          [] mode \in {"in", "fr"} ->
                /\ rcvd' = rcvd \o rd.data
                /\ mode = "fr" => Len(rcvd') <= 3 * MaxFrames
                /\ completed' =
                     IF rd.n > 0 /\ AfterRead(client, rd.data, ch.f, ch.accept,
                                              ch.garbage).complete
                     THEN Append(completed, Completion(client, rd, ch))
                     ELSE completed
                /\ UNCHANGED <<ev, ghostOut>>
          [] mode = "out" ->
                /\ wire' = IF EV_READ \notin revents /\ client.outgoing_msgs # <<>>
                           THEN wire \o Taken(Head(client.outgoing_msgs), wr.n)
                           ELSE wire
                /\ Len(wire') <= MaxWire
                /\ UNCHANGED <<enqueued, ev, ghostIn>>

EnqueueRec(mode, i, msg) ==
    CASE mode = "none" -> UNCHANGED <<ev, ghostIn, ghostOut>>
      [] mode = "ev" ->
            /\ ev' = [NoEvent EXCEPT !.op = "enqueue"]
            /\ UNCHANGED <<ghostIn, ghostOut>>
      [] mode = "out" ->
            /\ enqueued' = enqueued + 1
            /\ UNCHANGED <<wire, ev, ghostIn>>

----------------------------------------------------------------------------
(* The callbacks as the event loop runs them *)

\* the choices a read of rd leaves open: the framing outcome, the handler's
\* answer, the uninitialised ret, the effect of freeing a wild pointer
ReadChoices(i, rd) ==
    LET client == clients[i]
        fs == FramingAfter(client, rd.data)
    IN  IF rd.n = 0
        THEN {[f |-> NoFraming, accept |-> FALSE, garbage |-> 0, cr |-> c] :
                c \in IF client.ident = "unset" THEN BOOLEAN ELSE {FALSE}}
        ELSE IF rd.n = -1
        THEN {[f |-> NoFraming, accept |-> FALSE, garbage |-> 0, cr |-> FALSE]}
        ELSE IF Len(client.inbuf) + rd.n <= 2
        THEN {[f |-> NoFraming, accept |-> FALSE, garbage |-> g, cr |-> FALSE] :
                g \in {0, 1}}
        ELSE {[f |-> f, accept |-> a, garbage |-> 0, cr |-> FALSE] :
                f \in fs,
                a \in IF MsgType(View(client.inbuf \o rd.data)) = T_CONNECT
                      THEN BOOLEAN ELSE {FALSE}}

NoChoice == [f |-> NoFraming, accept |-> FALSE, garbage |-> 0, cr |-> FALSE]

\* accept_cb runs while fewer than limit connections are live
AcceptRun(limit, mode) ==
    /\ ~crashed
    /\ Len(clients) < limit
    /\ \E peer_sd \in AcceptResults :
        /\ AcceptStep(peer_sd)
        /\ AcceptRec(mode, peer_sd)
    /\ UNCHANGED <<char_signed, dec>>

\* peer_cb runs for a started watcher; the peer's next bytes are one of chunks
PeerCbRun(chunks, mode) ==
    /\ ~crashed
    /\ \E peer_w \in watchers, revents \in Revents :
        LET i == Lookup(peer_w)
        IN  IF EV_READ \in revents
            THEN \E rd \in ReadInputs(i, chunks) : \E ch \in ReadChoices(i, rd) :
                    /\ PeerCbStep(peer_w, revents, rd, NoWrite, ch.f, ch.accept,
                                  ch.garbage, ch.cr)
                    /\ PeerRec(mode, peer_w, revents, rd, NoWrite, ch)
            ELSE \E wr \in WriteInputs(i) :
                    /\ PeerCbStep(peer_w, revents, NoRead, wr, NoFraming, FALSE, 0, FALSE)
                    /\ PeerRec(mode, peer_w, revents, NoRead, wr, NoChoice)
    /\ UNCHANGED <<char_signed, dec>>

\* a handler or another connection's traffic enqueues one of msgs
EnqueueRun(msgs, mode) ==
    /\ ~crashed
    /\ \E i \in 1..Len(clients), msg \in msgs :
        /\ EnqueueStep(i, msg)
        /\ EnqueueRec(mode, i, msg)
    /\ UNCHANGED <<char_signed, dec>>

----------------------------------------------------------------------------
(* Spec: the whole system, any number of connections, nothing on record *)

AcceptCb == AcceptRun(Cardinality(FDS), "none")
PeerCb == PeerCbRun(SysChunks, "none")
Enqueue == EnqueueRun(Payloads, "none")

Next == AcceptCb \/ PeerCb \/ Enqueue

Spec == Init /\ [][Next]_vars

----------------------------------------------------------------------------
(* SpecEv: the whole system with a record of the last callback *)

AcceptEv == AcceptRun(Cardinality(FDS), "ev")
PeerCbEv == PeerCbRun(EvChunks, "ev")
EnqueueEv == EnqueueRun(Payloads, "ev")

NextEv == AcceptEv \/ PeerCbEv \/ EnqueueEv

SpecEv == Init /\ [][NextEv]_vars

----------------------------------------------------------------------------
(* SpecIn: one observed connection that receives every byte sequence up to *)
(* MaxStream bytes                                                         *)

AcceptObs == AcceptRun(1, "in")
PeerCbObs == PeerCbRun(SeqsUpTo(Byte, MaxStream - Len(rcvd)), "in")

NextIn == AcceptObs \/ PeerCbObs

SpecIn == Init /\ [][NextIn]_vars

----------------------------------------------------------------------------
(* SpecFr: one observed connection whose peer sends whole frames, one per  *)
(* read                                                                    *)

AcceptFr == AcceptRun(1, "fr")
PeerCbFr == PeerCbRun(SysChunks, "fr")

NextFr == AcceptFr \/ PeerCbFr

SpecFr == Init /\ [][NextFr]_vars

----------------------------------------------------------------------------
(* SpecOut: one observed connection on which E1, E2, E3 are enqueued in    *)
(* this order; the peer sends nothing                                      *)

AcceptOut == AcceptRun(1, "out")
PeerCbOut == PeerCbRun({}, "out")
EnqueueOut ==
    /\ enqueued < Len(EnvList)
    /\ EnqueueRun({EnvList[enqueued + 1]}, "out")

NextOut == AcceptOut \/ PeerCbOut \/ EnqueueOut

SpecOut == Init /\ [][NextOut]_vars

----------------------------------------------------------------------------
(* SpecQ: two connections whose queues are handed payloads of any length;  *)
(* the peers send nothing                                                  *)

AcceptQ == AcceptRun(2, "none")
PeerCbQ == PeerCbRun({}, "none")
EnqueueQ == EnqueueRun(AnyPayloads, "none")

NextQ == AcceptQ \/ PeerCbQ \/ EnqueueQ

SpecQ == Init /\ [][NextQ]_vars

----------------------------------------------------------------------------
(* The wire format: type byte, remaining length as a base-128 varint of 1  *)
(* to 4 bytes with continuation bit 0x80, payload                          *)

RECURSIVE Encode(_)
Encode(L) == IF L < 128 THEN <<L>> ELSE <<(L % 128) + 128>> \o Encode(L \div 128)

\* the varint that starts at s[idx]: its value and the bytes it takes, or
\* used = 0 when s ends inside it or it has a 5th byte
RECURSIVE Varint(_, _, _, _)
Varint(s, idx, mult, acc) ==
    IF idx > Len(s) \/ idx > 5
    THEN [len |-> 0, used |-> 0]
    ELSE IF s[idx] >= 128
         THEN Varint(s, idx + 1, mult * 128, acc + (s[idx] % 128) * mult)
         ELSE [len |-> acc + s[idx] * mult, used |-> idx - 1]

\* length of the frame at the front of s, 0 when there is none
FrameLen(s) ==
    LET vi == Varint(s, 2, 1, 0)
    IN  IF vi.used = 0 \/ 1 + vi.used + vi.len > Len(s) THEN 0
        ELSE 1 + vi.used + vi.len

RECURSIVE WellFormed(_)
WellFormed(s) ==
    \/ s = <<>>
    \/ /\ FrameLen(s) > 0
       /\ WellFormed(SubSeq(s, FrameLen(s) + 1, Len(s)))

RECURSIVE Frames(_)
Frames(s) ==
    IF s = <<>> \/ FrameLen(s) = 0 THEN <<>>
    ELSE <<SubSeq(s, 1, FrameLen(s))>> \o Frames(SubSeq(s, FrameLen(s) + 1, Len(s)))

\* s starts with a frame no receive buffer can hold: its remaining length
\* is encoded in more than 4 bytes, or the frame it declares is longer than
\* BUF_LEN
TooBig(s) ==
    LET vi == Varint(s, 2, 1, 0)
    IN  \/ Len(s) >= 5 /\ \A k \in 2..5 : s[k] >= 128
        \/ Len(s) >= 2 /\ vi.used > 0 /\ 1 + vi.used + vi.len > BUF_LEN

Registered(frame) == MsgType(View(frame)) \in {T_CONNECT, T_PINGREQ}

\* the entries of the record whose frame went to a handler
Dispatched(log) == SelectSeq(log, LAMBDA e : e.handler # "none")

FramesOf(log) == [k \in 1..Len(log) |-> log[k].frame]

NoReject(log) == \A k \in 1..Len(log) : log[k].handler = "connect" => log[k].ret # 0

\* what a fresh connection dispatches when stream arrives in a single read
OneRead(stream) ==
    {LET a == AfterRead(NewClient(0), stream, f, TRUE, g)
     IN  IF a.complete /\ a.handler # "none" THEN <<a.frame>> ELSE <<>> :
        f \in FramingAfter(NewClient(0), stream), g \in {0, 1}}

----------------------------------------------------------------------------
(* SpecLen: the framing of read_packet applied to one prepared buffer: a   *)
(* type byte, the varint encoding of L, and L payload bytes equal to fill  *)

LenCases == {0, 1, 2, 127, 128, 129, 200, 16383, 16384, 2097151, 2097152, 268435455}

InitLen ==
    /\ clients = <<>>
    /\ num_clients = 0
    /\ watchers = {}
    /\ openFds = {}
    /\ heap = [client |-> 0, watcher |-> 0, inbuf |-> 0, ident |-> 0,
               envelope |-> 0, msg |-> 0]
    /\ char_signed \in BOOLEAN
    /\ crashed = FALSE
    /\ ev = NoEvent
    /\ rcvd = <<>>
    /\ completed = <<>>
    /\ enqueued = 0
    /\ wire = <<>>
    /\ \E L \in LenCases, t \in {T_CONNECT, T_PINGREQ}, p \in {0, 1, 255} :
          dec = [done |-> FALSE, L |-> L, type |-> t, fill |-> p,
                 msg_complete |-> FALSE, msg_length |-> 0]

\* the buffer peer_cb holds when the whole frame has been read
Prepared(d) ==
    [hdr |-> <<d.type>> \o Encode(d.L), fill |-> d.fill,
     n |-> 1 + Len(Encode(d.L)) + d.L]

\* peer_cb calls read_packet when more than 2 bytes are buffered
Decode ==
    /\ ~dec.done
    /\ \E f \in IF Prepared(dec).n > 2 THEN Framing(Prepared(dec)) ELSE {NoFraming} :
          dec' = [dec EXCEPT !.done = TRUE, !.msg_complete = f.msg_complete,
                             !.msg_length = f.msg_length]
    /\ UNCHANGED <<core, char_signed, ev, ghostIn, ghostOut>>

NextLen == Decode

SpecLen == InitLen /\ [][NextLen]_vars

----------------------------------------------------------------------------
(* Claims about the read path of one connection (SpecIn) *)

\* C1: whenever the bytes delivered so far are a sequence of well-formed
\* frames that fits one read, the frames dispatched are those a single read
\* of the whole stream dispatches, however the stream was split.
C1_SplitInvariance ==
    (rcvd # <<>> /\ WellFormed(rcvd) /\ Len(rcvd) <= BUF_LEN /\ NoReject(completed))
        => FramesOf(Dispatched(completed)) \in OneRead(rcvd)

\* C4: a connection in S_CONNECTING whose first complete frame is not a
\* CONNECT frame is torn down, and no handler is invoked for the frame.
C4_NonConnectFirstTornDown ==
    (completed # <<>> /\ completed[1].state = S_CONNECTING
        /\ MsgType(View(completed[1].frame)) # T_CONNECT)
        => (completed[1].handler = "none" /\ clients = <<>>)

\* C5: after an accepted CONNECT frame the connection is established and
\* every complete frame of a registered type it sends is decoded and
\* dispatched: as many frames are dispatched as the stream holds (SpecFr:
\* the frames arrive whole, one per read).
C5_EstablishedAcceptsAll ==
    (/\ clients # <<>>
     /\ WellFormed(rcvd)
     /\ \A k \in 1..Len(Frames(rcvd)) : Registered(Frames(rcvd)[k])
     /\ completed # <<>>
     /\ completed[1].handler = "connect"
     /\ completed[1].frame = Frames(rcvd)[1]
     /\ NoReject(completed))
        => (/\ clients[1].state = S_CONNECTED
            /\ Len(Dispatched(completed)) = Len(Frames(rcvd)))

\* C7: when the two bytes of a zero-length CONNECT frame have arrived, the
\* frame is reported complete and handed to the connect handler.
C7_HeaderOnlyFrameComplete ==
    (clients # <<>> /\ rcvd = <<T_CONNECT, 0>>)
        => (Len(completed) = 1 /\ completed[1].handler = "connect")

\* C11: a connection whose stream starts with a frame that declares more
\* than BUF_LEN bytes, or whose remaining length takes more than 4 bytes, is
\* closed and removed from the clients list once read_packet has seen it.
C11_OversizeTornDown ==
    (Len(rcvd) > 2 /\ TooBig(rcvd)) => clients = <<>>

\* C15: a complete frame that is not a CONNECT frame and arrives in
\* S_CONNECTING reaches no handler, and a connection is in S_CONNECTED only
\* after handle_connect accepted a CONNECT frame that arrived in S_CONNECTING.
C15_HandshakeOnlyByConnect ==
    /\ \A k \in 1..Len(completed) :
          (completed[k].state = S_CONNECTING
              /\ MsgType(View(completed[k].frame)) # T_CONNECT)
            => (completed[k].handler = "none" /\ completed[k].ret = 0)
    /\ \A i \in 1..Len(clients) :
          clients[i].state # S_CONNECTING
            => \E k \in 1..Len(completed) :
                  /\ completed[k].state = S_CONNECTING
                  /\ completed[k].handler = "connect"
                  /\ completed[k].ret # 0

\* a PINGREQ frame arrived complete on a connection that is still in
\* S_CONNECTING
C15_Witness ==
    /\ clients # <<>>
    /\ clients[1].state = S_CONNECTING
    /\ \E k \in 1..Len(completed) :
          /\ completed[k].state = S_CONNECTING
          /\ MsgType(View(completed[k].frame)) = T_PINGREQ

\* C17: every complete frame is consumed: when all the frames sent so far
\* were reported complete, the last of them on an established connection,
\* and no handler rejected one, the connection is still there and its
\* receive buffer is empty (SpecFr).
C17_CompleteFrameConsumed ==
    (/\ completed # <<>>
     /\ completed[Len(completed)].state = S_CONNECTED
     /\ WellFormed(rcvd)
     /\ FramesOf(completed) = Frames(rcvd)
     /\ NoReject(completed))
        => (clients # <<>> /\ clients[1].inbuf = <<>>)

----------------------------------------------------------------------------
(* Claims about the whole system (Spec) *)

RECURSIVE Queued(_)
Queued(cs) == IF cs = <<>> THEN 0 ELSE Len(Head(cs).outgoing_msgs) + Queued(Tail(cs))

LiveFds == {clients[i].fd : i \in 1..Len(clients)}

\* C6: everything a connection owns is released when it is torn down: what
\* is allocated belongs to a connection of the clients list, and what is
\* open is the socket of one (or a descriptor accept_cb dropped).
C6_TeardownReleasesAll ==
    /\ heap.client = Len(clients)
    /\ heap.watcher = Len(clients)
    /\ heap.inbuf = Len(clients)
    /\ heap.envelope = Queued(clients)
    /\ heap.msg = Queued(clients)
    /\ openFds \subseteq LiveFds \cup {EAGAIN, EINTR, EWOULDBLOCK}

\* C8: 0 <= bytes_sent <= bytes_total for every envelope of every queue.
C8_BytesSentInRange ==
    \A i \in 1..Len(clients) : \A k \in 1..Len(clients[i].outgoing_msgs) :
        LET envelope == clients[i].outgoing_msgs[k]
        IN  0 <= envelope.bytes_sent /\ envelope.bytes_sent <= envelope.bytes_total

\* C9: the callback for the watcher of connection C does its I/O on C and
\* changes C only: the client it acts on is the one whose fd fired.
C9_KeyedBySocket ==
    ev.op \in {"read", "write", "idle"} => ev.target = ev.w

\* C10: after a read or a write that failed with an error other than
\* would-block, the connection it was issued on is gone from the registry.
C10_IoErrorTearsDown ==
    (ev.op \in {"read", "write"} /\ ev.res = -1 /\ ev.err # EAGAIN)
        => ev.target \notin LiveFds

\* C12: an accept_cb in which accept() returned a descriptor >= 0 puts
\* exactly one new client for it at the head of the clients list, in
\* S_CONNECTING with an empty buffer and an empty queue, and starts its
\* watcher; an accept_cb in which accept() failed leaves the list as it was.
C12_AcceptCreatesConnection ==
    [][ev'.op = "accept" =>
            IF ev'.res >= 0
            THEN /\ clients' = <<NewClient(ev'.res)>> \o clients
                 /\ watchers' = watchers \cup {ev'.res}
            ELSE clients' = clients /\ watchers' = watchers]_vars

\* C16: tearing down a connection does not touch identity fields that were
\* never populated: a callback in which read() returned 0 runs its teardown
\* to the end, whatever state the connection was in.
C16_TeardownSparesUnsetIdentity ==
    (ev.op = "read" /\ ev.res = 0) => ~crashed

\* C18: the number of buffered bytes of every live connection stays within
\* 0..BUF_LEN, and no read is offered more room than the buffer has left.
C18_InbufWithinCapacity ==
    \A i \in 1..Len(clients) :
        /\ Len(clients[i].inbuf) <= BUF_LEN
        /\ \A rd \in ReadInputs(i, SysChunks) :
              Len(clients[i].inbuf) + Len(rd.data) <= BUF_LEN

\* a receive buffer is full
C18_Witness ==
    \E i \in 1..Len(clients) : Len(clients[i].inbuf) = BUF_LEN

\* C19: num_clients is the length of the clients list.
C19_CounterMatchesList == num_clients = Len(clients)

\* a connection was torn down with an envelope queued while another stays
C19_Witness ==
    /\ num_clients = 1
    /\ heap.envelope > Queued(clients)

\* C20: the assertions of the read path hold: while a watcher is started the
\* lookup finds a client, its watcher's descriptor is its fd, and whatever a
\* read delivers, read_packet is called only with more than 2 bytes buffered.
C20_ReadPathAssertions ==
    \A peer_w \in watchers :
        LET i == Lookup(peer_w)
        IN  /\ i # 0
            /\ clients[i].watcher_fd = clients[i].fd
            /\ \A data \in SeqsUpTo({0}, BUF_LEN - Len(clients[i].inbuf)) :
                  LET c1 == [clients[i] EXCEPT !.inbuf = @ \o data]
                  IN  CallsReadPacket(c1) => read_packet_assert(c1)

\* two connections are live and read_packet has run on the buffer of the
\* one the lookup finds
C20_Witness ==
    /\ Len(clients) = 2
    /\ watchers # {}
    /\ Len(clients[1].inbuf) > 2

----------------------------------------------------------------------------
(* Claims about the write path of one connection (SpecOut) *)

\* C3: the bytes handed to the socket are all of E1, then all of E2, then
\* all of E3: what was written so far is a prefix of E1 E2 E3.
C3_OutboundOrder == IsPrefix(wire, E1 \o E2 \o E3)

\* C13: one write-readiness event drains the queue: a callback whose write
\* was taken in full (it removed the head envelope, nothing blocked or
\* failed) leaves the queue empty.
C13_OneEventDrains ==
    [][(/\ clients # <<>> /\ clients' # <<>>
        /\ Len(clients'[1].outgoing_msgs) < Len(clients[1].outgoing_msgs))
            => clients'[1].outgoing_msgs = <<>>]_vars

----------------------------------------------------------------------------
(* Claims about the queue under payloads of any length (SpecQ) *)

\* C14: an envelope is in an outgoing_msgs list only while bytes_sent differs
\* from bytes_total, so the assertion of the write branch holds for the
\* envelope it is about to send, whatever the length of the payload.
C14_QueuedIffUnsent ==
    \A i \in 1..Len(clients) : \A k \in 1..Len(clients[i].outgoing_msgs) :
        clients[i].outgoing_msgs[k].bytes_sent # clients[i].outgoing_msgs[k].bytes_total

----------------------------------------------------------------------------
(* Claims about the remaining-length decoding (SpecLen) *)

\* C2: for a buffer that holds a type byte, the varint encoding of L and L
\* payload bytes, read_packet reports the frame complete with length L
\* (L >= 1: read_packet is not called on the 2 bytes of a frame with L = 0,
\* which is the case of C7).
C2_RemainingLengthDecoded ==
    (dec.done /\ dec.L >= 1) => (dec.msg_complete /\ dec.msg_length = dec.L)

====
